---------------------------- MODULE Spec2Model ----------------------------
(***************************************************************************)
(* Model of the password generator: src/src/utils/passwordGenerator.js     *)
(* (getSecureRandomInt, secureShuffleArray, generatePassword,              *)
(* calculateStrength) and of the App component's state and handlers        *)
(* (src/src/App.jsx).                                                      *)
(*                                                                         *)
(* Strings are sequences of UTF-16 code units (65 is "A", 97 is "a", 48 is *)
(* "0", 33 is "!"), so that the pools the generator draws from and the     *)
(* regular-expression ranges the scorer tests are stated independently, as *)
(* they are in the source.                                                 *)
(*                                                                         *)
(* Every call of getSecureRandomInt consumes one word of the secure random *)
(* source.  The functions that draw take the words as a sequence `rnd`,    *)
(* consumed front to back in the order of the calls in the source; the     *)
(* actions choose the sequence nondeterministically.                       *)
(***************************************************************************)
EXTENDS Integers, Sequences, FiniteSets, TLC

VARIABLES
    config,     \* App: the config state / generatePassword: its options argument
    password,   \* App: the password state / the string a call returned or was given
    strength,   \* App: the strength state / the value calculateStrength returned
    array,      \* secureShuffleArray: its argument
    shuffled,   \* secureShuffleArray: its return value
    stage       \* App: "effect" while the regenerate effect is pending, else "idle";
                \* a function: "call" before the call, "returned" after it

vars == <<config, password, strength, array, shuffled, stage>>

Max(a, b) == IF a >= b THEN a ELSE b
Min(a, b) == IF a <= b THEN a ELSE b

-----------------------------------------------------------------------------
(* Bounds of the model *)

\* generatePassword is called with every length in -MaxNegLength..MaxGenLength
MaxNegLength == 1
MaxGenLength == 5
\* secureShuffleArray is called with every array of at most MaxArrayLength elements
MaxArrayLength == 4
\* calculateStrength is called with a run of 0..MaxRunLength equal characters
\* followed by every string of at most MaxTailLength characters
MaxRunLength == 24
MaxTailLength == 3
\* the length input receives every string of at most MaxInputLength characters
MaxInputLength == 3
\* the App draws its random words from the streams 0..MaxStream
MaxStream == 2

\* Words crypto.getRandomValues may store in the Uint32Array (a sample of
\* 0 .. 2^32 - 1, below 2^31 to stay inside TLC's integers)
RandomWords == {0, 1, 2147483647}

-----------------------------------------------------------------------------
(* passwordGenerator.js *)

CHAR_POOLS ==
    [uppercase |-> <<65, 66, 67, 68, 69, 70, 71, 72, 73, 74, 75, 76, 77,
                     78, 79, 80, 81, 82, 83, 84, 85, 86, 87, 88, 89, 90>>,
     lowercase |-> <<97, 98, 99, 100, 101, 102, 103, 104, 105, 106, 107, 108, 109,
                     110, 111, 112, 113, 114, 115, 116, 117, 118, 119, 120, 121, 122>>,
     numbers   |-> <<48, 49, 50, 51, 52, 53, 54, 55, 56, 57>>,
     \* ! @ # $ % ^ & * ( ) _ + - = [ ] { } | ; : , . < > ?
     symbols   |-> <<33, 64, 35, 36, 37, 94, 38, 42, 40, 41, 95, 43, 45,
                     61, 91, 93, 123, 125, 124, 59, 58, 44, 46, 60, 62, 63>>]

\* array[0] % max, where word is the value getRandomValues stored in array[0]
getSecureRandomInt(word, max) == word % max

\* s[k] of the source, whose indices start at 0
At(s, k) == s[k + 1]

SwapOverwrite(s, i, j) == [s EXCEPT ![i + 1] = s[j + 1]]

\* [shuffled[i], shuffled[j]] = [shuffled[j], shuffled[i]]
Swap(s, i, j) == [s EXCEPT ![i + 1] = s[j + 1], ![j + 1] = s[i + 1]]

\* for (let i = shuffled.length - 1; i > 0; i--) { j = ...; swap }
RECURSIVE ShuffleLoop(_, _, _)
ShuffleLoop(s, i, rnd) ==
    IF i > 0
    THEN LET j == getSecureRandomInt(Head(rnd), i + 1)
         IN  ShuffleLoop(Swap(s, i, j), i - 1, Tail(rnd))
    ELSE s

secureShuffleArray(arr, rnd) == ShuffleLoop(arr, Len(arr) - 1, rnd)

\* the number of words secureShuffleArray consumes
ShuffleDraws(n) == Max(0, n - 1)


\* One `if (<class>) { pool += ...; requiredChars.push(...) }` block.  st is
\* [pool, requiredChars, rnd]: the two locals and the random words not yet used.
AddClassUppercasePool(st, enabled, cls) ==
    IF enabled
    THEN [pool          |-> st.pool \o CHAR_POOLS.uppercase,
          requiredChars |-> Append(st.requiredChars,
                                   At(CHAR_POOLS[cls],
                                      getSecureRandomInt(Head(st.rnd), Len(CHAR_POOLS[cls])))),
          rnd           |-> Tail(st.rnd)]
    ELSE st

AddClass(st, enabled, cls) ==
    IF enabled
    THEN [pool          |-> st.pool \o CHAR_POOLS[cls],
          requiredChars |-> Append(st.requiredChars,
                                   At(CHAR_POOLS[cls],
                                      getSecureRandomInt(Head(st.rnd), Len(CHAR_POOLS[cls])))),
          rnd           |-> Tail(st.rnd)]
    ELSE st

\* the four blocks, in the order of the source
BuildPool(options, rnd) ==
    LET s0 == [pool |-> <<>>, requiredChars |-> <<>>, rnd |-> rnd]
        s1 == AddClass(s0, options.uppercase, "uppercase")
        s2 == AddClass(s1, options.lowercase, "lowercase")
        s3 == AddClass(s2, options.numbers, "numbers")
    IN  AddClass(s3, options.symbols, "symbols")

RemainingLengthOffByOne(length, required) == Max(0, length - required - 1)

\* Math.max(0, length - requiredChars.length)
RemainingLength(length, required) == Max(0, length - required)

\* the loop's pushes: pool[getSecureRandomInt(pool.length)], remainingLength times
RandomChars(pool, remainingLength, rnd) ==
    [i \in 1..remainingLength |-> At(pool, getSecureRandomInt(rnd[i], Len(pool)))]

PasswordCharsRandomOnly(requiredChars, pool, length, rnd) ==
    RandomChars(pool, RemainingLength(length, Len(requiredChars)), rnd)

PasswordCharsTruncated(requiredChars, pool, length, rnd) ==
    SubSeq(requiredChars
               \o RandomChars(pool, RemainingLength(length, Len(requiredChars)), rnd),
           1, Max(0, length))

\* passwordChars = [...requiredChars], then the loop's pushes
PasswordChars(requiredChars, pool, length, rnd) ==
    requiredChars
        \o RandomChars(pool, RemainingLength(length, Len(requiredChars)), rnd)

generatePassword(options, rnd) ==
    LET built           == BuildPool(options, rnd)
        pool            == built.pool
        requiredChars   == built.requiredChars
        remainingLength == RemainingLength(options.length, Len(requiredChars))
        passwordChars   == PasswordChars(requiredChars, pool, options.length, built.rnd)
    IN  IF pool = <<>>
        THEN <<>>
        ELSE secureShuffleArray(passwordChars,
                                SubSeq(built.rnd, remainingLength + 1, Len(built.rnd)))

\* the classes an options object enables
ClassNames == {"uppercase", "lowercase", "numbers", "symbols"}
EnabledClasses(options) == {c \in ClassNames : options[c]}
CountEnabled(options) == Cardinality(EnabledClasses(options))

\* the number of words one call of generatePassword consumes: one for each
\* required character, one for each remaining character, and the shuffle's
GenerateDraws(options) ==
    LET n == CountEnabled(options)
        r == Max(0, options.length - n)
    IN  IF n = 0 THEN 0 ELSE n + r + ShuffleDraws(n + r)

\* `!password` for a string: true of the empty string alone
IsFalsyUpToOne(pw) == Len(pw) <= 1

IsFalsy(pw) == Len(pw) = 0

LengthScoreStrict(n) ==
    (IF n > 8 THEN 15 ELSE 0) + (IF n > 12 THEN 15 ELSE 0)
        + (IF n > 16 THEN 10 ELSE 0) + (IF n > 24 THEN 10 ELSE 0)

\* the four `if (password.length >= ...) score += ...` statements
LengthScore(n) ==
    (IF n >= 8 THEN 15 ELSE 0) + (IF n >= 12 THEN 15 ELSE 0)
        + (IF n >= 16 THEN 10 ELSE 0) + (IF n >= 24 THEN 10 ELSE 0)

\* /[x-y]/.test(password): some code unit of password lies in lo..hi
TestRange(pw, lo, hi) == \E i \in 1..Len(pw) : lo <= pw[i] /\ pw[i] <= hi

\* /[^a-zA-Z0-9]/.test(password)
TestOther(pw) ==
    \E i \in 1..Len(pw) :
        ~ \/ (97 <= pw[i] /\ pw[i] <= 122)
          \/ (65 <= pw[i] /\ pw[i] <= 90)
          \/ (48 <= pw[i] /\ pw[i] <= 57)

\* the four `if (/.../.test(password)) score += ...` statements
VarietyScore(pw) ==
    (IF TestRange(pw, 97, 122) THEN 15 ELSE 0)
        + (IF TestRange(pw, 65, 90) THEN 15 ELSE 0)
        + (IF TestRange(pw, 48, 57) THEN 10 ELSE 0)
        + (IF TestOther(pw) THEN 10 ELSE 0)

GradeStrict(score) ==
    IF score > 75 THEN [label |-> "Strong", color |-> "#16a34a"]
    ELSE IF score > 50 THEN [label |-> "Medium", color |-> "#ca8a04"]
    ELSE [label |-> "Weak", color |-> "#dc2626"]

\* the if / else if / else that determines label and color
Grade(score) ==
    IF score >= 75 THEN [label |-> "Strong", color |-> "#16a34a"]
    ELSE IF score >= 50 THEN [label |-> "Medium", color |-> "#ca8a04"]
    ELSE [label |-> "Weak", color |-> "#dc2626"]

calculateStrength(pw) ==
    IF IsFalsy(pw)
    THEN [score |-> 0, label |-> "None", color |-> "#9ca3af"]
    ELSE LET score == LengthScore(Len(pw)) + VarietyScore(pw)
             grade == Grade(score)
         IN  [score |-> score, label |-> grade.label, color |-> grade.color]

-----------------------------------------------------------------------------
(* App.jsx *)

\* useState({length: 14, uppercase: true, ...})
InitialConfig ==
    [length |-> 14, uppercase |-> TRUE, lowercase |-> TRUE,
     numbers |-> TRUE, symbols |-> TRUE]

\* useState({score: 0, label: 'None', color: '#9ca3af'})
InitialStrength == [score |-> 0, label |-> "None", color |-> "#9ca3af"]

hasValidConfig(cfg) == cfg.uppercase \/ cfg.lowercase \/ cfg.numbers \/ cfg.symbols

regenerateKeepStrength(cfg, rnd) ==
    IF ~hasValidConfig(cfg)
    THEN [password |-> <<>>, strength |-> [score |-> 0, label |-> "None", color |-> "#9ca3af"]]
    ELSE [password |-> generatePassword(cfg, rnd),
          strength |-> [score |-> 0, label |-> "None", color |-> "#9ca3af"]]

\* the values regenerate passes to setPassword and setStrength
regenerate(cfg, rnd) ==
    IF ~hasValidConfig(cfg)
    THEN [password |-> <<>>, strength |-> [score |-> 0, label |-> "None", color |-> "#9ca3af"]]
    ELSE LET newPassword == generatePassword(cfg, rnd)
         IN  [password |-> newPassword, strength |-> calculateStrength(newPassword)]

\* the updater updateLength passes to setConfig
updateLength(prev, delta) ==
    [prev EXCEPT !.length = Min(32, Max(8, prev.length + delta))]

\* parseInt(string, 10): leading white space is skipped, then an optional
\* sign, then the longest run of decimal digits; NaN when that run is empty
IsWhiteSpace(c) == c \in {9, 10, 11, 12, 13, 32}
IsDigit(c) == 48 <= c /\ c <= 57

RECURSIVE TrimStart(_)
TrimStart(str) ==
    IF str # <<>> /\ IsWhiteSpace(Head(str)) THEN TrimStart(Tail(str)) ELSE str

RECURSIVE DigitsValue(_, _)
DigitsValue(str, acc) ==
    IF str # <<>> /\ IsDigit(Head(str))
    THEN DigitsValue(Tail(str), 10 * acc + (Head(str) - 48))
    ELSE acc

parseInt(string) ==
    LET trimmed == TrimStart(string)
        signed  == trimmed # <<>> /\ Head(trimmed) \in {43, 45}
        sign    == IF trimmed # <<>> /\ Head(trimmed) = 45 THEN 0 - 1 ELSE 1
        body    == IF signed THEN Tail(trimmed) ELSE trimmed
    IN  IF body # <<>> /\ IsDigit(Head(body))
        THEN [isNaN |-> FALSE, value |-> sign * DigitsValue(body, 0)]
        ELSE [isNaN |-> TRUE, value |-> 0]

handleLengthInputNoLowerClamp(prev, value) ==
    [prev EXCEPT !.length = Min(32, value)]

\* the updater handleLengthInput passes to setConfig when value is a number
handleLengthInput(prev, value) ==
    [prev EXCEPT !.length = Min(32, Max(8, value))]

\* the updater toggleOption passes to setConfig
toggleOption(prev, key) == [prev EXCEPT ![key] = ~prev[key]]

\* The words of one run of regenerate.  The App's runs draw from the streams
\* k = 0..MaxStream, whose i-th word is 29 * k * i.
Stream(k, n) == [i \in 1..n |-> 29 * k * i]

\* regenerate called: setPassword and setStrength in one batch
RunRegenerate(cfg) ==
    \E k \in 0..MaxStream :
        LET r == regenerate(cfg, Stream(k, GenerateDraws(cfg)))
        IN  /\ password' = r.password
            /\ strength' = r.strength

\* - 1 9 . a and the space
InputAlphabet == {45, 32, 49, 57, 46, 97}

\* The state of the first render.  stage is "effect" while the effect that
\* calls regenerate is pending (after the first render and after every
\* setConfig, which makes config a new object and regenerate a new callback),
\* and "idle" once it has run.  React runs a pending effect before it handles
\* the next event, so the handlers act in stage "idle" only.
Init ==
    /\ config = InitialConfig
    /\ password = <<>>
    /\ strength = InitialStrength
    /\ array = <<>>
    /\ shuffled = <<>>
    /\ stage = "effect"

\* useEffect(() => { regenerate(); }, [regenerate])
Effect ==
    /\ stage = "effect"
    /\ RunRegenerate(config)
    /\ stage' = "idle"
    /\ UNCHANGED <<config, array, shuffled>>

\* a click on the decrease (delta = -1) or the increase (delta = 1) button,
\* which is disabled at the end of the range
UpdateLength(delta) ==
    /\ stage = "idle"
    /\ IF delta < 0 THEN ~(config.length <= 8) ELSE ~(config.length >= 32)
    /\ config' = updateLength(config, delta)
    /\ stage' = "effect"
    /\ UNCHANGED <<password, strength, array, shuffled>>

\* a change event of the length input whose value is a number
HandleLengthInput(string) ==
    /\ stage = "idle"
    /\ ~parseInt(string).isNaN
    /\ config' = handleLengthInput(config, parseInt(string).value)
    /\ stage' = "effect"
    /\ UNCHANGED <<password, strength, array, shuffled>>

\* a change event of the length input whose value is not a number: no setConfig
HandleLengthInputNaN(string) ==
    /\ stage = "idle"
    /\ parseInt(string).isNaN
    /\ UNCHANGED vars

ToggleOption(key) ==
    /\ stage = "idle"
    /\ config' = toggleOption(config, key)
    /\ stage' = "effect"
    /\ UNCHANGED <<password, strength, array, shuffled>>

\* a click on the regenerate button, which is disabled without a valid config
RegenerateClick ==
    /\ stage = "idle"
    /\ hasValidConfig(config)
    /\ RunRegenerate(config)
    /\ UNCHANGED <<config, array, shuffled, stage>>

-----------------------------------------------------------------------------
(* generatePassword called with every options object of the bounds *)

Booleans == {TRUE, FALSE}

NoStrength == [score |-> 0, label |-> "None", color |-> "#9ca3af"]

GenOptions ==
    [length : (0 - MaxNegLength)..MaxGenLength,
     uppercase : Booleans, lowercase : Booleans,
     numbers : Booleans, symbols : Booleans]

GenInit ==
    /\ config \in GenOptions
    /\ password = <<>>
    /\ strength = NoStrength
    /\ array = <<>>
    /\ shuffled = <<>>
    /\ stage = "call"

Generate ==
    /\ stage = "call"
    /\ \E rnd \in [1..GenerateDraws(config) -> RandomWords] :
          password' = generatePassword(config, rnd)
    /\ stage' = "returned"
    /\ UNCHANGED <<config, strength, array, shuffled>>

GenNext == Generate

SpecGenerate == GenInit /\ [][GenNext]_vars

-----------------------------------------------------------------------------
(* secureShuffleArray called with every array of the bounds *)

ArrayElements == {"a", "b", "c"}

RECURSIVE SeqsUpTo(_, _)
SeqsUpTo(S, n) ==
    IF n = 0 THEN {<<>>}
    ELSE LET shorter == SeqsUpTo(S, n - 1)
         IN  shorter \cup {Append(q, x) : q \in {r \in shorter : Len(r) = n - 1}, x \in S}

ShuffleInit ==
    /\ array \in SeqsUpTo(ArrayElements, MaxArrayLength)
    /\ shuffled = <<>>
    /\ config = [length |-> 0, uppercase |-> FALSE, lowercase |-> FALSE,
                 numbers |-> FALSE, symbols |-> FALSE]
    /\ password = <<>>
    /\ strength = NoStrength
    /\ stage = "call"

Shuffle ==
    /\ stage = "call"
    /\ \E rnd \in [1..ShuffleDraws(Len(array)) -> RandomWords] :
          shuffled' = secureShuffleArray(array, rnd)
    /\ stage' = "returned"
    /\ UNCHANGED <<config, password, strength, array>>

ShuffleNext == Shuffle

SpecShuffle == ShuffleInit /\ [][ShuffleNext]_vars

-----------------------------------------------------------------------------
(* The App: every sequence of clicks, typed lengths and toggles *)

Next ==
    \/ Effect
    \/ \E delta \in {0 - 1, 1} : UpdateLength(delta)
    \/ \E string \in SeqsUpTo(InputAlphabet, MaxInputLength) : HandleLengthInput(string)
    \/ \E string \in SeqsUpTo(InputAlphabet, MaxInputLength) : HandleLengthInputNaN(string)
    \/ \E key \in ClassNames : ToggleOption(key)
    \/ RegenerateClick

Spec == Init /\ [][Next]_vars

-----------------------------------------------------------------------------
(* calculateStrength called with every string of the bounds *)

\* A Z a 0 @ { and a code unit outside ASCII
ScoreAlphabet == {65, 90, 97, 48, 64, 123, 233}

Run(c, n) == [i \in 1..n |-> c]

\* "aaaaaaaa", "Aa1!Aa1!Aa1!", "abcdefghijklmnop"
ExamplePasswords ==
    {Run(97, 8),
     <<65, 97, 49, 33, 65, 97, 49, 33, 65, 97, 49, 33>>,
     <<97, 98, 99, 100, 101, 102, 103, 104, 105, 106, 107, 108, 109, 110, 111, 112>>}

StrengthInit ==
    /\ password \in
          {Run(c, n) \o t : c \in ScoreAlphabet, n \in 0..MaxRunLength,
                            t \in SeqsUpTo(ScoreAlphabet, MaxTailLength)}
              \cup ExamplePasswords
    /\ strength = NoStrength
    /\ config = [length |-> 0, uppercase |-> FALSE, lowercase |-> FALSE,
                 numbers |-> FALSE, symbols |-> FALSE]
    /\ array = <<>>
    /\ shuffled = <<>>
    /\ stage = "call"

Score ==
    /\ stage = "call"
    /\ strength' = calculateStrength(password)
    /\ stage' = "returned"
    /\ UNCHANGED <<config, password, array, shuffled>>

StrengthNext == Score

SpecStrength == StrengthInit /\ [][StrengthNext]_vars

-----------------------------------------------------------------------------
(* Properties of generatePassword (under SpecGenerate) *)

Range(s) == {s[i] : i \in 1..Len(s)}

EnabledPool(options) == UNION {Range(CHAR_POOLS[c]) : c \in EnabledClasses(options)}

\* C1: with at least one class enabled, the returned string has length
\* max(length, count(enabledClasses)): exactly length when length >= count,
\* and count when length < count, for every integer length (zero and negative
\* included) and every outcome of the draws.
C1_OutputLength ==
    (stage = "returned" /\ CountEnabled(config) >= 1) =>
        /\ config.length >= CountEnabled(config) => Len(password) = config.length
        /\ config.length < CountEnabled(config) => Len(password) = CountEnabled(config)

C1_Witness ==
    /\ stage = "returned"
    /\ CountEnabled(config) = 3
    /\ config.length < 0
    /\ Len(password) = 3

\* C2: with at least one class enabled and length >= count(enabledClasses), the
\* returned string holds at least one character of each enabled class.
C2_EveryEnabledClassPresent ==
    (stage = "returned" /\ CountEnabled(config) >= 1
        /\ config.length >= CountEnabled(config)) =>
        \A c \in EnabledClasses(config) :
            \E i \in 1..Len(password) : password[i] \in Range(CHAR_POOLS[c])

\* all four classes enabled, one more character than classes, and the extra
\* character drawn from a class that is already present
C2_Witness ==
    /\ stage = "returned"
    /\ CountEnabled(config) = 4
    /\ config.length = 5
    /\ Cardinality({i \in 1..Len(password) : password[i] \in Range(CHAR_POOLS.uppercase)}) = 2

\* C3: with at least one class enabled, every character of the returned string
\* belongs to the pool of an enabled class, and no character of a disabled
\* class appears in it.
C3_OnlyEnabledPools ==
    (stage = "returned" /\ CountEnabled(config) >= 1) =>
        /\ \A i \in 1..Len(password) : password[i] \in EnabledPool(config)
        /\ \A c \in ClassNames \ EnabledClasses(config) :
              \A i \in 1..Len(password) : password[i] \notin Range(CHAR_POOLS[c])

C3_Witness ==
    /\ stage = "returned"
    /\ EnabledClasses(config) = {"lowercase", "numbers"}
    /\ Len(password) = 5
    /\ \E i \in 1..Len(password) : password[i] \in Range(CHAR_POOLS.numbers)
    /\ \E i \in 1..Len(password) : password[i] \in Range(CHAR_POOLS.lowercase)

\* C4: with all four classes disabled generatePassword returns the empty
\* string whatever the length, and it returns the empty string for no other
\* options.
C4_EmptyIffNoClass ==
    stage = "returned" => (password = <<>> <=> CountEnabled(config) = 0)

C4_Witness ==
    /\ stage = "returned"
    /\ CountEnabled(config) = 0
    /\ config.length = MaxGenLength
    /\ password = <<>>

-----------------------------------------------------------------------------
(* Properties of secureShuffleArray (under SpecShuffle) *)

Count(s, x) == Cardinality({i \in 1..Len(s) : s[i] = x})

\* C8: for every input sequence (empty and single-element sequences included)
\* and every outcome of the index draws, the result of secureShuffleArray has
\* the same multiset of elements as its input, hence the same length.
C8_ShuffleIsPermutation ==
    stage = "returned" =>
        /\ Len(shuffled) = Len(array)
        /\ \A x \in ArrayElements : Count(shuffled, x) = Count(array, x)

\* a shuffle that moved elements
C8_Witness ==
    /\ stage = "returned"
    /\ array = <<"a", "b", "c", "a">>
    /\ shuffled = <<"c", "a", "a", "b">>

-----------------------------------------------------------------------------
(* Properties of calculateStrength (under SpecStrength) *)

Contains(pw, S) == \E i \in 1..Len(pw) : pw[i] \in S

Letters == Range(CHAR_POOLS.uppercase) \cup Range(CHAR_POOLS.lowercase)
Digits == Range(CHAR_POOLS.numbers)

Points(cond, n) == IF cond THEN n ELSE 0

\* the table of the scoring rules
TableScore(pw) ==
    Points(Len(pw) >= 8, 15) + Points(Len(pw) >= 12, 15)
        + Points(Len(pw) >= 16, 10) + Points(Len(pw) >= 24, 10)
        + Points(Contains(pw, Range(CHAR_POOLS.lowercase)), 15)
        + Points(Contains(pw, Range(CHAR_POOLS.uppercase)), 15)
        + Points(Contains(pw, Digits), 10)
        + Points(\E i \in 1..Len(pw) : pw[i] \notin Letters \cup Digits, 10)

\* C5: for every non-empty password the score is the sum of the independently
\* evaluated buckets of the table, an integer in 0..100; 8 lowercase letters
\* score 30, "Aa1!Aa1!Aa1!" scores 80, 16 lowercase letters score 55.
C5_ScoreIsTableSum ==
    (stage = "returned" /\ password # <<>>) =>
        /\ strength.score = TableScore(password)
        /\ strength.score \in 0..100
        /\ password = Run(97, 8) => strength.score = 30
        /\ password = <<65, 97, 49, 33, 65, 97, 49, 33, 65, 97, 49, 33>>
              => strength.score = 80
        /\ password = Run(97, 16) => strength.score = 55

\* the score 100 is attained: 24 characters, all four kinds
C5_Witness ==
    /\ stage = "returned"
    /\ password = Run(97, 24) \o <<65, 48, 64>>
    /\ strength.score = 100

\* C6 as stated: score >= 75 gives Strong (green), 50 <= score < 75 gives
\* Medium (amber), score < 75 and non-empty gives Weak (red).
C6_AsStated ==
    (stage = "returned" /\ password # <<>>) =>
        /\ strength.score >= 75 =>
              (strength.label = "Strong" /\ strength.color = "#16a34a")
        /\ (50 <= strength.score /\ strength.score < 75) =>
              (strength.label = "Medium" /\ strength.color = "#ca8a04")
        /\ strength.score < 75 =>
              (strength.label = "Weak" /\ strength.color = "#dc2626")

\* C6 (amended): for every non-empty password, score >= 75 gives Strong
\* (green), 50 <= score < 75 gives Medium (amber), and score < 50 gives Weak
\* (red).
C6_LabelThresholds ==
    (stage = "returned" /\ password # <<>>) =>
        /\ strength.score >= 75 =>
              (strength.label = "Strong" /\ strength.color = "#16a34a")
        /\ (50 <= strength.score /\ strength.score < 75) =>
              (strength.label = "Medium" /\ strength.color = "#ca8a04")
        /\ strength.score < 50 =>
              (strength.label = "Weak" /\ strength.color = "#dc2626")

\* a password that scores exactly 50, the lowest Medium
C6_Witness ==
    /\ stage = "returned"
    /\ password # <<>>
    /\ strength.score = 50
    /\ strength.label = "Medium"

\* C7: calculateStrength of the empty string is score 0, label "None" and the
\* gray color, and no non-empty password is labelled "None".
C7_NoneIffEmpty ==
    stage = "returned" =>
        /\ password = <<>> =>
              strength = [score |-> 0, label |-> "None", color |-> "#9ca3af"]
        /\ password # <<>> => strength.label # "None"

C7_Witness ==
    /\ stage = "returned"
    /\ password = <<>>
    /\ strength.label = "None"

-----------------------------------------------------------------------------
(* Properties of the App (under Spec) *)

\* C9: starting from the length 14, after any sequence of decrement and
\* increment clicks, typed lengths (any integer, or a value that is not a
\* number, which is ignored) and toggles, config.length is an integer in
\* 8..32, and a toggle never changes config.length.
C9_LengthInRange ==
    /\ [](config.length \in 8..32)
    /\ [][(\E key \in ClassNames : config' = toggleOption(config, key))
              => config'.length = config.length]_vars

\* a typed length above the range was clamped, then a class was toggled
C9_Witness ==
    /\ stage = "idle"
    /\ config.length = 32
    /\ ~config.symbols
    /\ Len(password) = 32

\* C10: in every reachable state the displayed strength is calculateStrength
\* of the displayed password; once regenerate has run with no class enabled
\* the password is empty and the strength is score 0, label "None", gray.
C10_StrengthMatchesPassword ==
    /\ strength = calculateStrength(password)
    /\ (stage = "idle" /\ ~hasValidConfig(config)) =>
          /\ password = <<>>
          /\ strength = [score |-> 0, label |-> "None", color |-> "#9ca3af"]

\* a password of the full length was generated and is graded Strong
C10_Witness ==
    /\ stage = "idle"
    /\ config.length = 32
    /\ Len(password) = 32
    /\ strength.label = "Strong"

=============================================================================
